---------------------------- MODULE Spec2Model ----------------------------
(***************************************************************************)
(* graphql-anywhere: the synchronous query executor of src/src/index.ts,   *)
(* with the previous-result reference preservation of                      *)
(* executeSelectionSet / executeField / executeSubSelectedArray / merge.   *)
(*                                                                         *)
(* JavaScript values are modelled as tagged records [t, v]; objects and    *)
(* arrays live in a heap (a sequence of cells) and are referred to by      *)
(* address, so that `===` on objects is equality of addresses.             *)
(***************************************************************************)
EXTENDS Integers, Sequences, FiniteSets, TLC

VARIABLES
    document,        \* the parsed query document (operation + fragment definitions)
    variableValues,  \* the variable bindings passed to graphql()
    execOptions,     \* [resultMapper, fragmentMatcher] passed to graphql()
    heap,            \* the JavaScript heap: objects and arrays by address
    rootValue,       \* the root value passed to graphql()
    previousResult,  \* execOptions.previousResult of the latest call (null if none)
    result,          \* the value returned by the latest call
    status,          \* "idle", "returned" or "threw"
    error,           \* the kind of error raised by the latest call ("" if none)
    calls,           \* the resolver invocations of the latest call, in order
    maxDepth,        \* deepest nesting of evaluator activations in the latest call
    phase            \* "start", "executed", "updated", "reexecuted"

vars == << document, variableValues, execOptions, heap, rootValue, previousResult,
           result, status, error, calls, maxDepth, phase >>

-----------------------------------------------------------------------------
(* Bounds *)

\* Leaf numbers of the root data range over 0..MaxNum.
MaxNum == 2

\* Call-stack limit of the runtime, in nested evaluator activations: deeper
\* recursion raises RangeError (stack overflow).
MaxStack == 6

-----------------------------------------------------------------------------
(* JavaScript values *)

Num(n) == [t |-> "num", v |-> n]
Bool(b) == [t |-> "bool", v |-> IF b THEN 1 ELSE 0]
Ref(a) == [t |-> "ref", v |-> a]
NULL == [t |-> "null", v |-> 0]
UNDEFINED == [t |-> "undefined", v |-> 0]

\* x == null
IsNullish(x) == x.t \in {"null", "undefined"}

\* typeof x === 'string' || 'number' || 'boolean'
IsPrimitive(x) == x.t \in {"str", "num", "bool"}

\* The truthiness of a value, as `previousResult && ...` and
\* `previousResult ? ... : null` test it.
Truthy(x) ==
    CASE x.t \in {"null", "undefined"} -> FALSE
      [] x.t \in {"num", "bool", "str"} -> x.v # 0
      [] OTHER -> TRUE

ObjectCell(keys, vals) == [kind |-> "obj", keys |-> keys, vals |-> vals, elems |-> << >>]
ArrayCell(elems) == [kind |-> "arr", keys |-> << >>, vals |-> << >>, elems |-> elems]

IsRef(x) == x.t = "ref"
IsArray(h, x) == x.t = "ref" /\ h[x.v].kind = "arr"
IsPlainObject(h, x) == x.t = "ref" /\ h[x.v].kind = "obj"

\* Object.keys(x), restricted to the named (non-index) own properties.
OwnKeys(h, x) == IF IsRef(x) THEN h[x.v].keys ELSE << >>

KeyIndex(keys, key) ==
    IF \E i \in 1..Len(keys) : keys[i] = key
    THEN CHOOSE i \in 1..Len(keys) : keys[i] = key
    ELSE 0

\* x.hasOwnProperty(key) for a field-name key
HasOwn(h, x, key) == IsRef(x) /\ KeyIndex(h[x.v].keys, key) # 0

\* x[key] for a field-name key; a primitive has no such property
GetProp(h, x, key) ==
    IF HasOwn(h, x, key) THEN h[x.v].vals[KeyIndex(h[x.v].keys, key)] ELSE UNDEFINED

\* x[i] for an array index i (0-based)
GetIndex(h, x, i) ==
    IF IsArray(h, x) /\ i + 1 <= Len(h[x.v].elems) THEN h[x.v].elems[i + 1] ELSE UNDEFINED

\* x[key] = val on an object or array x
SetProp(h, x, key, val) ==
    LET cell == h[x.v]
        i == KeyIndex(cell.keys, key)
    IN  IF i # 0
        THEN [h EXCEPT ![x.v].vals[i] = val]
        ELSE [h EXCEPT ![x.v].keys = Append(@, key), ![x.v].vals = Append(@, val)]

-----------------------------------------------------------------------------
(* Literal JSON trees, used to build root values, and their allocation *)

TNum(n) == [t |-> "num", v |-> n, keys |-> << >>, kids |-> << >>]
TNull == [t |-> "null", v |-> 0, keys |-> << >>, kids |-> << >>]
TAbsent == [t |-> "undefined", v |-> 0, keys |-> << >>, kids |-> << >>]
TObj(keys, kids) == [t |-> "obj", v |-> 0, keys |-> keys, kids |-> kids]
TArr(kids) == [t |-> "arr", v |-> 0, keys |-> << >>, kids |-> kids]

RECURSIVE Alloc(_, _)
RECURSIVE AllocKids(_, _, _, _)

\* Allocates the children of a literal left to right; an absent child of an
\* object literal is a key the object does not have.
AllocKids(tree, i, h, acc) ==
    IF i > Len(tree.kids) THEN [heap |-> h, keys |-> acc.keys, vals |-> acc.vals]
    ELSE LET kid == Alloc(tree.kids[i], h)
         IN  IF tree.kids[i].t = "undefined" /\ tree.t = "obj"
             THEN AllocKids(tree, i + 1, h, acc)
             ELSE AllocKids(tree, i + 1, kid.heap,
                     [keys |-> IF tree.t = "obj" THEN Append(acc.keys, tree.keys[i]) ELSE acc.keys,
                      vals |-> Append(acc.vals, kid.value)])

Alloc(tree, h) ==
    IF tree.t \notin {"obj", "arr"} THEN [value |-> [t |-> tree.t, v |-> tree.v], heap |-> h]
    ELSE LET kids == AllocKids(tree, 1, h, [keys |-> << >>, vals |-> << >>])
             cell == IF tree.t = "obj" THEN ObjectCell(kids.keys, kids.vals)
                     ELSE ArrayCell(kids.vals)
         IN  [value |-> Ref(Len(kids.heap) + 1), heap |-> Append(kids.heap, cell)]

-----------------------------------------------------------------------------
(* The selection AST (graphql's Document, SelectionSet, Field, ...) *)

NoDirectives == << >>
Literal(b) == [kind |-> "BooleanValue", value |-> b, name |-> ""]
Variable(n) == [kind |-> "Variable", value |-> FALSE, name |-> n]
Directive(name, arg) == [name |-> name, arg |-> arg]

\* id stands for the identity of the AST node
Field(id, name, alias, directives, selectionSet) ==
    [kind |-> "Field", id |-> id, name |-> name, alias |-> alias,
     directives |-> directives, typeCondition |-> "", selectionSet |-> selectionSet]
InlineFragment(id, typeCondition, directives, selectionSet) ==
    [kind |-> "InlineFragment", id |-> id, name |-> "", alias |-> "",
     directives |-> directives, typeCondition |-> typeCondition, selectionSet |-> selectionSet]
FragmentSpread(id, name, directives) ==
    [kind |-> "FragmentSpread", id |-> id, name |-> name, alias |-> "",
     directives |-> directives, typeCondition |-> "", selectionSet |-> << >>]
FragmentDefinition(name, typeCondition, selectionSet) ==
    [name |-> name, typeCondition |-> typeCondition, selectionSet |-> selectionSet]
Document(selectionSet, fragments) ==
    [selectionSet |-> selectionSet, fragments |-> fragments]

isField(selection) == selection.kind = "Field"
isInlineFragment(selection) == selection.kind = "InlineFragment"

\* The alias when there is one, the field's name otherwise.
resultKeyNameFromField(field) == IF field.alias # "" THEN field.alias ELSE field.name

\* The value of a directive's `if` argument under the variable bindings.
DirectiveArgument(directive, variables) ==
    IF directive.arg.kind = "Variable" THEN variables[directive.arg.name]
    ELSE directive.arg.value

\* skip(if: true) and include(if: false) exclude the selection; anything
\* else, unrecognised directives included, leaves it in.
shouldInclude(selection, variables) ==
    \A i \in 1..Len(selection.directives) :
        LET d == selection.directives[i]
        IN  /\ d.name = "skip" => ~DirectiveArgument(d, variables)
            /\ d.name = "include" => DirectiveArgument(d, variables)

\* createFragmentMap(getFragmentDefinitions(document)): a later definition of
\* a name replaces an earlier one.
HasFragment(fragmentMap, name) == \E i \in 1..Len(fragmentMap) : fragmentMap[i].name = name
LookupFragment(fragmentMap, name) ==
    fragmentMap[CHOOSE i \in 1..Len(fragmentMap) :
                    /\ fragmentMap[i].name = name
                    /\ \A j \in (i + 1)..Len(fragmentMap) : fragmentMap[j].name # name]

-----------------------------------------------------------------------------
(* The caller's callbacks *)

\* The resolver of the test suite, (fieldName, root) => root[fieldName]:
\* reading a property of null or undefined raises a TypeError.
resolver(h, fieldName, root) ==
    IF IsNullish(root) THEN [value |-> UNDEFINED, error |-> "TypeError"]
    ELSE [value |-> GetProp(h, root, fieldName), error |-> ""]

\* execOptions.fragmentMatcher; the default matches every type condition.
fragmentMatcher(execContext, root, typeCondition) ==
    typeCondition \in execContext.fragmentMatcher

\* execOptions.resultMapper, when configured: (values, root) => values
resultMapper(values, root) == values

-----------------------------------------------------------------------------
(* The execution engine.  An evaluation threads the record                 *)
(*   st = [heap, calls, maxDepth, error]                                   *)
(* through the calls; a raised error (st.error # "") aborts everything     *)
(* that follows it.                                                        *)

Raise(st, kind) == [st EXCEPT !.error = kind]
Failed(st) == st.error # ""
Enter(st, depth) == [st EXCEPT !.maxDepth = IF depth > @ THEN depth ELSE @]

\* let resultModified = previousResult == null;
SeedModified(prev) == IsNullish(prev)

\* A slip in the skip: only fragments are filtered, fields always run.
SkipsOnlyFragments(selection, variables) ==
    ~isField(selection) /\ ~shouldInclude(selection, variables)

\* if (! shouldInclude(selection, variables)) { return; }
SkipsSelection(selection, variables) == ~shouldInclude(selection, variables)

\* previousResult && fieldResult !== previousResult[resultFieldKey]
FieldModified(h, prev, fieldResult, resultFieldKey) ==
    Truthy(prev) /\ fieldResult # GetProp(h, prev, resultFieldKey)

\* fragmentResult !== previousResult
FragmentModified(prev, fragmentResult) == fragmentResult # prev

\* if (!fragment) { throw new Error(`No fragment named ...`); }
FragmentMissing(fragmentMap, selection) ==
    ~isInlineFragment(selection) /\ ~HasFragment(fragmentMap, selection.name)

\* A slip in the lookup: an undefined spread is passed over in silence.
IgnoreNoFragment(st) == st

\* throw new Error(`No fragment named ${selection.name.value}`);
ThrowNoFragment(st) == Raise(st, "NoFragment")

\* A reference-preservation slip: the accumulator is returned even when
\* nothing was modified.
SelectionSetResultAlwaysNew(resultModified, res, prev) == res

\* return resultModified ? result : previousResult;
SelectionSetResult(resultModified, res, prev) == IF resultModified THEN res ELSE prev

\* return resultModified ? nextResult : previousResult;
ArrayResult(resultModified, nextResult, prev) == IF resultModified THEN nextResult ELSE prev

\* previousResult ? previousResult[resultKey] : null
PreviousField(h, prev, resultKey) == IF Truthy(prev) THEN GetProp(h, prev, resultKey) ELSE NULL

\* previousResult ? previousResult[i] : null
PreviousItem(h, prev, i) == IF Truthy(prev) THEN GetIndex(h, prev, i) ELSE NULL

\* previousResult && nextItem !== previousResult[i]
ItemModified(h, prev, nextItem, i) == Truthy(prev) /\ nextItem # GetIndex(h, prev, i)

\* A slip in the recursion: the nested call is given the list, not the item.
NestedArrayIsList(list, item) == list

\* The array the nested call of executeSubSelectedArray evaluates: the item.
NestedArray(list, item) == item

\* Evaluates x a single time and hands its value to F (an operator's
\* argument is otherwise evaluated anew at each of its uses).
Once(x, F(_)) == CHOOSE y \in { F(v) : v \in {x} } : TRUE

RECURSIVE executeSelectionSet(_, _, _, _, _, _)
RECURSIVE forEachSelection(_, _, _, _, _, _, _, _, _)
RECURSIVE executeField(_, _, _, _, _, _)
RECURSIVE executeSubSelectedArray(_, _, _, _, _, _)
RECURSIVE mapItems(_, _, _, _, _, _, _, _, _)
RECURSIVE merge(_, _, _)
RECURSIVE mergeSubObjects(_, _, _, _, _)
RECURSIVE addSrcProps(_, _, _, _, _)

\* Object.keys(dest).forEach: merge the sub-objects of the keys src has too.
mergeSubObjects(dest, src, destKeys, i, st) ==
    IF i > Len(destKeys) \/ Failed(st) THEN st
    ELSE IF HasOwn(st.heap, src, destKeys[i])
    THEN Once(merge(GetProp(st.heap, dest, destKeys[i]),
                    GetProp(st.heap, src, destKeys[i]), st),
              LAMBDA merged : mergeSubObjects(dest, src, destKeys, i + 1, merged))
    ELSE mergeSubObjects(dest, src, destKeys, i + 1, st)

\* Object.keys(src).forEach: add the props dest has not.  Assigning a
\* property of a primitive raises a TypeError (module code is strict).
addSrcProps(dest, src, srcKeys, i, st) ==
    IF i > Len(srcKeys) \/ Failed(st) THEN st
    ELSE IF HasOwn(st.heap, dest, srcKeys[i]) THEN addSrcProps(dest, src, srcKeys, i + 1, st)
    ELSE IF ~IsRef(dest) THEN Raise(st, "TypeError")
    ELSE Once([st EXCEPT !.heap = SetProp(@, dest, srcKeys[i], GetProp(@, src, srcKeys[i]))],
              LAMBDA added : addSrcProps(dest, src, srcKeys, i + 1, added))

\* merge(dest, src): the value it returns is dropped by every caller, so
\* only its effect on the heap is modelled.  Object.keys(null) raises.
merge(dest0, src0, st0) ==
    Once([dest |-> dest0, src |-> src0, st |-> st0], LAMBDA a :
      IF Failed(a.st) THEN a.st
      ELSE IF IsNullish(a.src) \/ IsPrimitive(a.src) \/ IsArray(a.st.heap, a.src) THEN a.st
      ELSE IF IsNullish(a.dest) THEN Raise(a.st, "TypeError")
      ELSE Once(mergeSubObjects(a.dest, a.src, OwnKeys(a.st.heap, a.dest), 1, a.st),
                LAMBDA merged :
                  IF Failed(merged) THEN merged
                  ELSE addSrcProps(a.dest, a.src, OwnKeys(merged.heap, a.src), 1, merged)))

\* selectionSet.selections.forEach((selection) => { ... }), from selection i
\* on; `res` is the accumulator `result`, `modified` is resultModified.
forEachSelection(selections, i, root, prev, execContext, res, modified, depth, st) ==
    IF i > Len(selections) \/ Failed(st) THEN [resultModified |-> modified, st |-> st]
    ELSE IF SkipsSelection(selections[i], execContext.variableValues)
    THEN forEachSelection(selections, i + 1, root, prev, execContext, res, modified, depth, st)
    ELSE IF isField(selections[i])
    THEN Once(executeField(selections[i], root, prev, execContext, depth, st), LAMBDA f :
           Once([resultModified |->
                    modified \/ FieldModified(f.st.heap, prev, f.value,
                                              resultKeyNameFromField(selections[i])),
                 st |-> IF ~Failed(f.st) /\ f.value # UNDEFINED
                        THEN [f.st EXCEPT !.heap =
                                 SetProp(@, res, resultKeyNameFromField(selections[i]), f.value)]
                        ELSE f.st],
                LAMBDA n : forEachSelection(selections, i + 1, root, prev, execContext, res,
                                            n.resultModified, depth, n.st)))
    ELSE IF FragmentMissing(execContext.fragmentMap, selections[i])
    THEN Once(ThrowNoFragment(st), LAMBDA thrown :
           forEachSelection(selections, i + 1, root, prev, execContext, res, modified,
                            depth, thrown))
    ELSE LET fragment == IF isInlineFragment(selections[i]) THEN selections[i]
                         ELSE LookupFragment(execContext.fragmentMap, selections[i].name)
         IN  IF fragmentMatcher(execContext, root, fragment.typeCondition)
             THEN Once(executeSelectionSet(fragment.selectionSet, root, prev, execContext,
                                           depth + 1, st), LAMBDA fr :
                    Once([resultModified |-> modified \/ FragmentModified(prev, fr.value),
                          st |-> merge(res, fr.value, fr.st)],
                         LAMBDA n : forEachSelection(selections, i + 1, root, prev, execContext,
                                                     res, n.resultModified, depth, n.st)))
             ELSE forEachSelection(selections, i + 1, root, prev, execContext, res,
                                   modified, depth, st)

executeSelectionSet(selectionSet, root0, prev0, execContext, depth, st0) ==
    Once([root |-> root0, prev |-> prev0, st |-> st0], LAMBDA a :
      IF Failed(a.st) THEN [value |-> UNDEFINED, st |-> a.st]
      ELSE IF depth > MaxStack THEN [value |-> UNDEFINED, st |-> Raise(a.st, "RangeError")]
      ELSE Once([res |-> Ref(Len(a.st.heap) + 1),
                 st |-> [Enter(a.st, depth) EXCEPT !.heap = Append(@, ObjectCell(<< >>, << >>))]],
                LAMBDA new :
           Once(forEachSelection(selectionSet, 1, a.root, a.prev, execContext, new.res,
                                 SeedModified(a.prev), depth, new.st), LAMBDA loop :
             IF Failed(loop.st) THEN [value |-> UNDEFINED, st |-> loop.st]
             ELSE IF execContext.resultMapper # "none"
             THEN [value |-> resultMapper(new.res, a.root), st |-> loop.st]
             ELSE [value |-> SelectionSetResult(loop.resultModified, new.res, a.prev),
                   st |-> loop.st])))

executeField(field, root0, prev0, execContext, depth, st0) ==
    Once([root |-> root0, prev |-> prev0, resolved |-> resolver(st0.heap, field.name, root0),
          st |-> [st0 EXCEPT !.calls = Append(@, [field |-> field.id,
                                                  fieldName |-> field.name,
                                                  rootValue |-> root0])]],
         LAMBDA a :
      IF a.resolved.error # "" THEN [value |-> UNDEFINED, st |-> Raise(a.st, a.resolved.error)]
      ELSE IF field.selectionSet = << >> THEN [value |-> a.resolved.value, st |-> a.st]
      ELSE IF IsNullish(a.resolved.value) THEN [value |-> a.resolved.value, st |-> a.st]
      ELSE IF IsArray(a.st.heap, a.resolved.value)
      THEN executeSubSelectedArray(field, a.resolved.value,
               PreviousField(a.st.heap, a.prev, resultKeyNameFromField(field)),
               execContext, depth + 1, a.st)
      ELSE executeSelectionSet(field.selectionSet, a.resolved.value,
               PreviousField(a.st.heap, a.prev, resultKeyNameFromField(field)),
               execContext, depth + 1, a.st))

\* result.map((item, i) => { ... }), from index i (0-based) on; `items` are
\* the elements of nextResult built so far.
mapItems(field, list, i, prev, execContext, items, modified, depth, st) ==
    IF i >= Len(st.heap[list.v].elems) \/ Failed(st)
    THEN [items |-> items, resultModified |-> modified, st |-> st]
    ELSE IF GetIndex(st.heap, list, i) = NULL
    THEN Once(Append(items, NULL), LAMBDA next :
           mapItems(field, list, i + 1, prev, execContext, next, modified, depth, st))
    ELSE IF IsArray(st.heap, GetIndex(st.heap, list, i))
    THEN Once(executeSubSelectedArray(field, NestedArray(list, GetIndex(st.heap, list, i)),
                  PreviousItem(st.heap, prev, i), execContext, depth + 1, st),
              LAMBDA nested :
           Once(Append(items, nested.value), LAMBDA next :
             mapItems(field, list, i + 1, prev, execContext, next, modified, depth, nested.st)))
    ELSE Once(executeSelectionSet(field.selectionSet, GetIndex(st.heap, list, i),
                  PreviousItem(st.heap, prev, i), execContext, depth + 1, st),
              LAMBDA nextItem :
           Once([items |-> Append(items, nextItem.value),
                 resultModified |->
                    modified \/ ItemModified(nextItem.st.heap, prev, nextItem.value, i)],
                LAMBDA n : mapItems(field, list, i + 1, prev, execContext, n.items,
                                    n.resultModified, depth, nextItem.st)))

executeSubSelectedArray(field, list0, prev0, execContext, depth, st0) ==
    Once([list |-> list0, prev |-> prev0, st |-> st0], LAMBDA a :
      IF Failed(a.st) THEN [value |-> UNDEFINED, st |-> a.st]
      ELSE IF depth > MaxStack THEN [value |-> UNDEFINED, st |-> Raise(a.st, "RangeError")]
      ELSE Once(mapItems(field, a.list, 0, a.prev, execContext, << >>,
                         SeedModified(a.prev), depth, Enter(a.st, depth)), LAMBDA loop :
             IF Failed(loop.st) THEN [value |-> UNDEFINED, st |-> loop.st]
             ELSE [value |-> ArrayResult(loop.resultModified,
                                         Ref(Len(loop.st.heap) + 1), a.prev),
                   st |-> [loop.st EXCEPT !.heap = Append(@, ArrayCell(loop.items))]]))

\* const execContext: ExecContext = { fragmentMap, contextValue, ... };
ExecContext(doc, variables, options) ==
    [fragmentMap |-> doc.fragments,
     variableValues |-> variables,
     resultMapper |-> options.resultMapper,
     fragmentMatcher |-> options.fragmentMatcher]

\* The evaluation state a call starts from.
Entry(h) == [heap |-> h, calls |-> << >>, maxDepth |-> 0, error |-> ""]

\* graphql(resolver, document, rootValue, contextValue, variableValues, execOptions)
graphql(doc, root, variables, options, prev, h) ==
    executeSelectionSet(doc.selectionSet, root, prev, ExecContext(doc, variables, options),
                        1, Entry(h))

-----------------------------------------------------------------------------
(* The inputs: documents, root values, variables and options *)

\* { a b { c d } }
QueryNested ==
    Document(<< Field(1, "a", "", NoDirectives, << >>),
                Field(2, "b", "", NoDirectives,
                      << Field(3, "c", "", NoDirectives, << >>),
                         Field(4, "d", "", NoDirectives, << >>) >>) >>,
             << >>)

\* { b { c } ...F }   fragment F on T { b { d } }
QuerySpread ==
    Document(<< Field(1, "b", "", NoDirectives, << Field(2, "c", "", NoDirectives, << >>) >>),
                FragmentSpread(3, "F", NoDirectives) >>,
             << FragmentDefinition("F", "T",
                    << Field(4, "b", "", NoDirectives,
                             << Field(5, "d", "", NoDirectives, << >>) >>) >>) >>)

\* { b { c } ... on U { a } a }
QueryInline ==
    Document(<< Field(1, "b", "", NoDirectives, << Field(2, "c", "", NoDirectives, << >>) >>),
                InlineFragment(3, "U", NoDirectives,
                               << Field(4, "a", "", NoDirectives, << >>) >>),
                Field(5, "a", "", NoDirectives, << >>) >>,
             << >>)

\* { a l { c } }
QueryList ==
    Document(<< Field(1, "a", "", NoDirectives, << >>),
                Field(2, "l", "", NoDirectives, << Field(3, "c", "", NoDirectives, << >>) >>) >>,
             << >>)

\* { a n { c } }
QueryNestedList ==
    Document(<< Field(1, "a", "", NoDirectives, << >>),
                Field(2, "n", "", NoDirectives, << Field(3, "c", "", NoDirectives, << >>) >>) >>,
             << >>)

\* { a @client b @skip(if: $v) { c d @include(if: $v) } x: a @include(if: false) }
QueryDirectives ==
    Document(<< Field(1, "a", "", << Directive("client", Literal(TRUE)) >>, << >>),
                Field(2, "b", "", << Directive("skip", Variable("v")) >>,
                      << Field(3, "c", "", NoDirectives, << >>),
                         Field(4, "d", "", << Directive("include", Variable("v")) >>,
                               << >>) >>),
                Field(5, "a", "x", << Directive("include", Literal(FALSE)) >>, << >>) >>,
             << >>)

\* { a ...Missing @skip(if: $v) }   (no fragment named Missing)
QueryUnknownSpread ==
    Document(<< Field(1, "a", "", NoDirectives, << >>),
                FragmentSpread(2, "Missing", << Directive("skip", Variable("v")) >>) >>,
             << >>)

\* { b { c ...Missing } ... on U { ...Missing } a }   (no fragment named Missing)
QueryUnknownNested ==
    Document(<< Field(1, "b", "", NoDirectives,
                      << Field(2, "c", "", NoDirectives, << >>),
                         FragmentSpread(3, "Missing", NoDirectives) >>),
                InlineFragment(4, "U", NoDirectives,
                               << FragmentSpread(5, "Missing", NoDirectives) >>),
                Field(6, "a", "", NoDirectives, << >>) >>,
             << >>)

\* { ...F }   fragment F on U { a ...F }
QueryCyclic ==
    Document(<< FragmentSpread(1, "F", NoDirectives) >>,
             << FragmentDefinition("F", "U",
                    << Field(2, "a", "", NoDirectives, << >>),
                       FragmentSpread(3, "F", NoDirectives) >>) >>)

Documents ==
    { QueryNested, QuerySpread, QueryInline, QueryList, QueryNestedList,
      QueryDirectives, QueryUnknownSpread, QueryUnknownNested, QueryCyclic }

Item(c) == TObj(<< "c" >>, << TNum(c) >>)
RootData(a, b, l, n) == TObj(<< "a", "b", "l", "n" >>, << a, b, l, n >>)

\* The values of the field b: null or an object { c, d } (d may be missing).
BValues ==
    { TNull, TObj(<< "c", "d" >>, << TNum(1), TAbsent >>) }
    \cup { TObj(<< "c", "d" >>, << TNum(c), TNum(1) >>) : c \in 1..MaxNum }
    \cup { TObj(<< "c", "d" >>, << TNum(1), TNum(d) >>) : d \in 1..MaxNum }

\* The values of the field l: lists of objects { c } and nulls.
LValues ==
    { TArr(<< >>), TArr(<< Item(1) >>), TArr(<< TNull, Item(1) >>) }
    \cup { TArr(<< Item(1), Item(c) >>) : c \in 1..MaxNum }

\* The values of the field n: lists of lists of objects { c }.
NValues ==
    { TArr(<< TArr(<< Item(1) >>), TArr(<< Item(1) >>) >>) }
    \cup { TArr(<< TArr(<< Item(c) >>) >>) : c \in 1..MaxNum }

RootValues ==
    { RootData(TNum(a), TObj(<< "c", "d" >>, << TNum(1), TNum(1) >>),
               TArr(<< Item(1), Item(1) >>), TArr(<< TArr(<< Item(1) >>) >>)) : a \in 1..MaxNum }
    \cup { RootData(TNum(1), b, TArr(<< Item(1), Item(1) >>),
                    TArr(<< TArr(<< Item(1) >>) >>)) : b \in BValues }
    \cup { RootData(TNum(1), TObj(<< "c", "d" >>, << TNum(1), TNum(1) >>), l,
                    TArr(<< TArr(<< Item(1) >>) >>)) : l \in LValues }
    \cup { RootData(TNum(1), TObj(<< "c", "d" >>, << TNum(1), TNum(1) >>),
                    TArr(<< Item(1), Item(1) >>), n) : n \in NValues }

VariableMaps == [{"v"} -> BOOLEAN]

\* No options (the default matcher matches every type condition), a result
\* mapper, or a fragment matcher that rejects the type condition U.
DefaultOptions == [resultMapper |-> "none", fragmentMatcher |-> {"T", "U"}]
Options ==
    { DefaultOptions,
      [resultMapper |-> "values", fragmentMatcher |-> {"T", "U"}],
      [resultMapper |-> "none", fragmentMatcher |-> {"T"}] }

-----------------------------------------------------------------------------
(* The state machine: a caller executes a query, its data or variables     *)
(* change, and it executes the query again with the previous result.       *)

Init ==
    /\ document \in Documents
    /\ variableValues \in VariableMaps
    /\ execOptions \in Options
    /\ \E tree \in RootValues :
          /\ heap = Alloc(tree, << >>).heap
          /\ rootValue = Alloc(tree, << >>).value
    /\ previousResult = NULL
    /\ result = UNDEFINED
    /\ status = "idle"
    /\ error = ""
    /\ calls = << >>
    /\ maxDepth = 0
    /\ phase = "start"

\* One call of graphql() with the given previousResult.
Run(prev) ==
    LET out == graphql(document, rootValue, variableValues, execOptions, prev, heap)
    IN  /\ heap' = out.st.heap
        /\ calls' = out.st.calls
        /\ maxDepth' = out.st.maxDepth
        /\ error' = out.st.error
        /\ status' = IF Failed(out.st) THEN "threw" ELSE "returned"
        /\ result' = out.value

\* graphql(resolver, document, rootValue, null, variableValues, options)
Execute ==
    /\ phase = "start"
    /\ Run(NULL)
    /\ phase' = "executed"
    /\ UNCHANGED << document, variableValues, execOptions, rootValue, previousResult >>

\* The caller keeps the returned result, and the data and variables change.
Update ==
    /\ phase = "executed"
    /\ status = "returned"
    /\ \E tree \in RootValues :
          /\ heap' = Alloc(tree, heap).heap
          /\ rootValue' = Alloc(tree, heap).value
    /\ variableValues' \in VariableMaps
    /\ previousResult' = result
    /\ phase' = "updated"
    /\ UNCHANGED << document, execOptions, result, status, error, calls, maxDepth >>

\* graphql(resolver, document, rootValue, null, variableValues,
\*         { ...options, previousResult })
ExecuteWithPrevious ==
    /\ phase = "updated"
    /\ Run(previousResult)
    /\ phase' = "reexecuted"
    /\ UNCHANGED << document, variableValues, execOptions, rootValue, previousResult >>

Next == Execute \/ Update \/ ExecuteWithPrevious

Spec == Init /\ [][Next]_vars

-----------------------------------------------------------------------------
(* What the claims speak of: the fields a selection set visits, and the    *)
(* paths at which a root value differs from a previous result.             *)

Range(seq) == { seq[i] : i \in 1..Len(seq) }
Executed == phase \in {"executed", "reexecuted"}
\* The step of ExecuteWithPrevious, seen from its first state.
Reexecuting == phase = "updated"
NoMapper == execOptions.resultMapper = "none"
Matches(typeCondition) == typeCondition \in execOptions.fragmentMatcher

RECURSIVE CollectFields(_, _, _)
\* The fields of a selection set that the directive filter keeps, those of
\* its matched fragments included, in document order (fragments expanded at
\* most `fuel` deep; an undefined spread contributes nothing).
CollectFields(selections, i, fuel) ==
    IF i > Len(selections) \/ fuel = 0 THEN << >>
    ELSE LET s == selections[i]
             rest == CollectFields(selections, i + 1, fuel)
         IN  IF ~shouldInclude(s, variableValues) THEN rest
             ELSE IF isField(s) THEN << s >> \o rest
             ELSE IF isInlineFragment(s)
             THEN (IF Matches(s.typeCondition) THEN CollectFields(s.selectionSet, 1, fuel - 1)
                   ELSE << >>) \o rest
             ELSE IF ~HasFragment(document.fragments, s.name) THEN rest
             ELSE LET def == LookupFragment(document.fragments, s.name)
                  IN  (IF Matches(def.typeCondition)
                       THEN CollectFields(def.selectionSet, 1, fuel - 1)
                       ELSE << >>) \o rest

Visited(selectionSet) == CollectFields(selectionSet, 1, MaxStack)

\* The sub-selections of all visited fields with a given result key, as one
\* selection set.
RECURSIVE SubSelections(_, _, _)
SubSelections(fields, i, key) ==
    IF i > Len(fields) THEN << >>
    ELSE (IF resultKeyNameFromField(fields[i]) = key THEN fields[i].selectionSet ELSE << >>)
         \o SubSelections(fields, i + 1, key)

\* Steps of a path into a result tree: a result key or a list index.
AtKey(k) == [key |-> k, index |-> -1]
AtIndex(i) == [key |-> "", index |-> i]
Mismatch == [key |-> "!", index |-> -1]

Step(h, x, step) == IF step.index >= 0 THEN GetIndex(h, x, step.index)
                    ELSE GetProp(h, x, step.key)

RECURSIVE GetAt(_, _, _)
GetAt(h, x, path) == IF path = << >> THEN x ELSE GetAt(h, Step(h, x, Head(path)), Tail(path))

RECURSIVE Diff(_, _, _, _, _)
RECURSIVE DiffList(_, _, _, _, _)

\* The paths at which the values the resolver yields for the visited fields
\* differ from a previous result: the path of a leaf whose value differs, or
\* a path ending in Mismatch where the shapes differ (an object or list
\* against something else, lists of different lengths, a null against a
\* non-null).
DiffList(h, selectionSet, list, old, path) ==
    IF ~IsArray(h, old) \/ Len(h[old.v].elems) # Len(h[list.v].elems)
    THEN { Append(path, Mismatch) }
    ELSE UNION { LET item == GetIndex(h, list, i)
                     was == GetIndex(h, old, i)
                     p == Append(path, AtIndex(i))
                 IN  IF item = NULL THEN (IF was = NULL THEN {} ELSE { Append(p, Mismatch) })
                     ELSE IF IsArray(h, item) THEN DiffList(h, selectionSet, item, was, p)
                     ELSE Diff(h, selectionSet, item, was, p)
               : i \in 0..(Len(h[list.v].elems) - 1) }

Diff(h, selectionSet, root, old, path) ==
    IF ~IsPlainObject(h, old) THEN { Append(path, Mismatch) }
    ELSE UNION { LET fresh == GetProp(h, root, f.name)
                     was == GetProp(h, old, resultKeyNameFromField(f))
                     p == Append(path, AtKey(resultKeyNameFromField(f)))
                 IN  IF f.selectionSet = << >> THEN (IF fresh = was THEN {} ELSE { p })
                     ELSE IF IsNullish(fresh)
                     THEN (IF fresh = was THEN {} ELSE { Append(p, Mismatch) })
                     ELSE IF IsArray(h, fresh) THEN DiffList(h, f.selectionSet, fresh, was, p)
                     ELSE Diff(h, f.selectionSet, fresh, was, p)
               : f \in Range(Visited(selectionSet)) }

Unchanged(h, selectionSet, root, old) == Diff(h, selectionSet, root, old, << >>) = {}

-----------------------------------------------------------------------------
(* C1 *)

RECURSIVE NestedPreserved(_, _, _, _, _, _)
RECURSIVE NestedPreservedList(_, _, _, _, _, _)

\* At every object below the root: when nothing the query selects beneath it
\* changed, the result holds the previous result's object itself.  h is the
\* heap before the call, h2 the heap after it.
NestedPreservedList(h, h2, selectionSet, list, old, new) ==
    \A i \in 0..(Len(h[list.v].elems) - 1) :
        LET item == GetIndex(h, list, i)
            was == GetIndex(h, old, i)
            now == GetIndex(h2, new, i)
        IN  /\ (IsPlainObject(h, item) /\ IsPlainObject(h, was)
                  /\ Unchanged(h, selectionSet, item, was)) => now = was
            /\ (IsPlainObject(h, item) /\ IsPlainObject(h, was) /\ IsPlainObject(h2, now))
                  => NestedPreserved(h, h2, selectionSet, item, was, now)
            /\ (IsArray(h, item) /\ IsArray(h, was) /\ IsArray(h2, now))
                  => NestedPreservedList(h, h2, selectionSet, item, was, now)

NestedPreserved(h, h2, selectionSet, root, old, new) ==
    \A f \in Range(Visited(selectionSet)) :
        LET key == resultKeyNameFromField(f)
            sub == SubSelections(Visited(selectionSet), 1, key)
            fresh == GetProp(h, root, f.name)
            was == GetProp(h, old, key)
            now == GetProp(h2, new, key)
        IN  f.selectionSet # << >> =>
              /\ (IsPlainObject(h, fresh) /\ IsPlainObject(h, was)
                    /\ Unchanged(h, sub, fresh, was)) => now = was
              /\ (IsPlainObject(h, fresh) /\ IsPlainObject(h, was) /\ IsPlainObject(h2, now))
                    => NestedPreserved(h, h2, sub, fresh, was, now)
              /\ (IsArray(h, fresh) /\ IsArray(h, was) /\ IsArray(h2, now))
                    => NestedPreservedList(h, h2, sub, fresh, was, now)

\* C1: with no result mapper and a non-null previousResult, a call that
\* returns while every visited field resolves to the value previousResult
\* holds at the same path returns previousResult itself; and at every nested
\* object whose own selected values are unchanged the result holds the
\* previous object itself, whatever changed elsewhere.
C1_IdentityPreserved ==
    [][(Reexecuting /\ NoMapper /\ ~IsNullish(previousResult) /\ status' = "returned")
         => /\ Unchanged(heap, document.selectionSet, rootValue, previousResult)
                 => result' = previousResult
            /\ IsPlainObject(heap, previousResult) /\ IsPlainObject(heap', result')
                 => NestedPreserved(heap, heap', document.selectionSet, rootValue,
                                    previousResult, result')]_vars

\* A re-execution that found nothing changed in a nested query and returned
\* the previous result.
C1_Witness ==
    /\ phase = "reexecuted"
    /\ status = "returned"
    /\ NoMapper
    /\ document = QueryNested
    /\ IsPlainObject(heap, previousResult)
    /\ result = previousResult
    /\ Len(calls) = 4

\* A re-execution where a sibling changed and a nested object was kept.
C1_NestedWitness ==
    /\ phase = "reexecuted"
    /\ status = "returned"
    /\ NoMapper
    /\ document = QueryNested
    /\ result # previousResult
    /\ IsPlainObject(heap, GetProp(heap, result, "b"))
    /\ GetProp(heap, result, "b") = GetProp(heap, previousResult, "b")

-----------------------------------------------------------------------------
(* C2 *)

RECURSIVE Nodes(_, _, _, _)
RECURSIVE NodesList(_, _, _, _)

\* The paths of the objects and lists the query selects from a root value.
NodesList(h, selectionSet, list, path) ==
    UNION { LET item == GetIndex(h, list, i)
                p == Append(path, AtIndex(i))
            IN  IF IsArray(h, item) THEN {p} \cup NodesList(h, selectionSet, item, p)
                ELSE IF IsPlainObject(h, item) THEN {p} \cup Nodes(h, selectionSet, item, p)
                ELSE {}
          : i \in 0..(Len(h[list.v].elems) - 1) }

Nodes(h, selectionSet, root, path) ==
    UNION { LET fresh == GetProp(h, root, f.name)
                p == Append(path, AtKey(resultKeyNameFromField(f)))
            IN  IF f.selectionSet = << >> \/ ~IsRef(fresh) THEN {}
                ELSE IF IsArray(h, fresh) THEN {p} \cup NodesList(h, f.selectionSet, fresh, p)
                ELSE {p} \cup Nodes(h, f.selectionSet, fresh, p)
          : f \in Range(Visited(selectionSet)) }

IsPrefix(p, q) == Len(p) <= Len(q) /\ SubSeq(q, 1, Len(p)) = p

\* The call of graphql() on the current inputs without a previousResult.
Fresh == graphql(document, rootValue, variableValues, execOptions, NULL, heap)

\* C2: with a previousResult and no result mapper, when exactly one leaf
\* field resolves to a value other than the one previousResult holds (and
\* nothing else differs), the returned tree holds the new value at that
\* leaf, every object and list on the way from the root to the leaf has a
\* new identity, and every object and list off that way is the very one
\* previousResult holds at the same path.
C2_SelectiveChange ==
    [][(Reexecuting /\ NoMapper /\ IsPlainObject(heap, previousResult)
          /\ status' = "returned")
         => LET d == Diff(heap, document.selectionSet, rootValue, previousResult, << >>)
            IN  (Cardinality(d) = 1 /\ \A p \in d : p[Len(p)] # Mismatch)
                  => LET leaf == CHOOSE p \in d : TRUE
                     IN  /\ \A k \in 0..(Len(leaf) - 1) :
                                GetAt(heap', result', SubSeq(leaf, 1, k))
                                  # GetAt(heap, previousResult, SubSeq(leaf, 1, k))
                         /\ GetAt(heap', result', leaf) = GetAt(Fresh.st.heap, Fresh.value, leaf)
                         /\ \A q \in Nodes(heap, document.selectionSet, rootValue, << >>) :
                                ~IsPrefix(q, leaf)
                                  => GetAt(heap', result', q) = GetAt(heap, previousResult, q)]_vars

-----------------------------------------------------------------------------
(* C3 *)

\* The array evaluation of a visited list field of the query, on the inputs
\* of the call to come.
ArrayEvaluation(f) ==
    executeSubSelectedArray(f, GetProp(heap, rootValue, f.name),
        PreviousField(heap, previousResult, resultKeyNameFromField(f)),
        ExecContext(document, variableValues, execOptions), 2, Entry(heap))

\* C3: the array evaluation of a sub-selected list returns previousList
\* itself exactly when there is a previous list and every element's outcome
\* (the elements of the list it builds) is identical to previousList[i];
\* otherwise it returns the list it built.
C3_ArrayIdentity ==
    Reexecuting =>
      \A f \in Range(Visited(document.selectionSet)) :
        (f.selectionSet # << >> /\ IsArray(heap, GetProp(heap, rootValue, f.name))) =>
          LET previousList == PreviousField(heap, previousResult, resultKeyNameFromField(f))
              out == ArrayEvaluation(f)
              nextResult == Ref(Len(out.st.heap))
              outcomes == out.st.heap[nextResult.v].elems
          IN  ~Failed(out.st) =>
                IF /\ ~IsNullish(previousList)
                   /\ \A i \in 1..Len(outcomes) :
                          outcomes[i] = GetIndex(heap, previousList, i - 1)
                THEN out.value = previousList
                ELSE out.value = nextResult

-----------------------------------------------------------------------------
(* C4 *)

\* A step that runs graphql(), seen from its first state.
Executing == phase \in {"start", "updated"}

RECURSIVE CollectExcluded(_, _, _)
\* The fields the directive filter excludes from a selection set, those of
\* its matched fragments included.
CollectExcluded(selections, i, fuel) ==
    IF i > Len(selections) \/ fuel = 0 THEN << >>
    ELSE LET s == selections[i]
             rest == CollectExcluded(selections, i + 1, fuel)
         IN  IF isField(s)
             THEN (IF shouldInclude(s, variableValues) THEN << >> ELSE << s >>) \o rest
             ELSE IF ~shouldInclude(s, variableValues) THEN rest
             ELSE IF isInlineFragment(s)
             THEN (IF Matches(s.typeCondition) THEN CollectExcluded(s.selectionSet, 1, fuel - 1)
                   ELSE << >>) \o rest
             ELSE IF ~HasFragment(document.fragments, s.name) THEN rest
             ELSE LET def == LookupFragment(document.fragments, s.name)
                  IN  (IF Matches(def.typeCondition)
                       THEN CollectExcluded(def.selectionSet, 1, fuel - 1)
                       ELSE << >>) \o rest

Excluded(selectionSet) == CollectExcluded(selectionSet, 1, MaxStack)

RECURSIVE FieldsBeneath(_)
\* The ids of the fields written in a selection set, at any depth.
FieldsBeneath(selections) ==
    UNION { (IF isField(selections[i]) THEN { selections[i].id } ELSE {})
            \cup FieldsBeneath(selections[i].selectionSet)
          : i \in 1..Len(selections) }

RECURSIVE ExcludedFields(_)
\* The ids of the excluded fields of a selection set and of the fields
\* written beneath them.
ExcludedFields(selections) ==
    UNION { LET s == selections[i]
            IN  IF isField(s) /\ ~shouldInclude(s, variableValues)
                THEN { s.id } \cup FieldsBeneath(s.selectionSet)
                ELSE ExcludedFields(s.selectionSet)
          : i \in 1..Len(selections) }

ExcludedInDocument ==
    ExcludedFields(document.selectionSet)
    \cup UNION { ExcludedFields(document.fragments[i].selectionSet)
                 : i \in 1..Len(document.fragments) }

NoExcludedCalls(cs) == \A i \in 1..Len(cs) : cs[i].field \notin ExcludedInDocument

RECURSIVE KeysAbsent(_, _, _, _)
RECURSIVE KeysAbsentList(_, _, _, _)

\* No object returned for a selection set has the result key of a field
\* that the filter excluded from that selection set.
KeysAbsentList(h, selectionSet, list, new) ==
    \A i \in 0..(Len(h[list.v].elems) - 1) :
        LET item == GetIndex(h, list, i)
            now == GetIndex(h, new, i)
        IN  /\ (IsPlainObject(h, item) /\ IsPlainObject(h, now))
                  => KeysAbsent(h, selectionSet, item, now)
            /\ (IsArray(h, item) /\ IsArray(h, now))
                  => KeysAbsentList(h, selectionSet, item, now)

KeysAbsent(h, selectionSet, root, new) ==
    /\ \A f \in Range(Excluded(selectionSet)) : ~HasOwn(h, new, resultKeyNameFromField(f))
    /\ \A f \in Range(Visited(selectionSet)) :
         LET key == resultKeyNameFromField(f)
             sub == SubSelections(Visited(selectionSet), 1, key)
             fresh == GetProp(h, root, f.name)
             now == GetProp(h, new, key)
         IN  f.selectionSet # << >> =>
               /\ (IsPlainObject(h, fresh) /\ IsPlainObject(h, now))
                     => KeysAbsent(h, sub, fresh, now)
               /\ (IsArray(h, fresh) /\ IsArray(h, now))
                     => KeysAbsentList(h, sub, fresh, now)

\* C4 as claimed: in every execution no excluded field, and no field beneath
\* one, is resolved, and the object returned for a selection set lacks the
\* result key of every field excluded from it.
C4_ExcludedAbsent ==
    Executed =>
      /\ NoExcludedCalls(calls)
      /\ (status = "returned" /\ IsPlainObject(heap, result))
            => KeysAbsent(heap, document.selectionSet, rootValue, result)

RECURSIVE KeysExplained(_, _, _, _, _, _)
RECURSIVE KeysExplainedList(_, _, _, _, _, _)

\* An object returned for a selection set has the result key of a field
\* excluded from it only if a field the filter kept has that result key or
\* the previous result holds the key at the same place.  h is the heap
\* before the call, h2 the heap after it.
KeysExplainedList(h, h2, selectionSet, list, old, new) ==
    \A i \in 0..(Len(h[list.v].elems) - 1) :
        LET item == GetIndex(h, list, i)
            was == GetIndex(h, old, i)
            now == GetIndex(h2, new, i)
        IN  /\ (IsPlainObject(h, item) /\ IsPlainObject(h2, now))
                  => KeysExplained(h, h2, selectionSet, item, was, now)
            /\ (IsArray(h, item) /\ IsArray(h2, now))
                  => KeysExplainedList(h, h2, selectionSet, item, was, now)

KeysExplained(h, h2, selectionSet, root, old, new) ==
    /\ \A f \in Range(Excluded(selectionSet)) :
         HasOwn(h2, new, resultKeyNameFromField(f))
           => \/ \E g \in Range(Visited(selectionSet)) :
                    resultKeyNameFromField(g) = resultKeyNameFromField(f)
              \/ HasOwn(h, old, resultKeyNameFromField(f))
    /\ \A f \in Range(Visited(selectionSet)) :
         LET key == resultKeyNameFromField(f)
             sub == SubSelections(Visited(selectionSet), 1, key)
             fresh == GetProp(h, root, f.name)
             was == GetProp(h, old, key)
             now == GetProp(h2, new, key)
         IN  f.selectionSet # << >> =>
               /\ (IsPlainObject(h, fresh) /\ IsPlainObject(h2, now))
                     => KeysExplained(h, h2, sub, fresh, was, now)
               /\ (IsArray(h, fresh) /\ IsArray(h2, now))
                     => KeysExplainedList(h, h2, sub, fresh, was, now)

\* C4, amended: in every execution no excluded field, and no field beneath
\* one, is resolved; and the object returned for a selection set has the
\* result key of a field excluded from it only when a field that is not
\* excluded has the same result key or previousResult holds that key at the
\* same place.
C4_ExcludedNotResolved ==
    [][Executing =>
         /\ NoExcludedCalls(calls')
         /\ (status' = "returned" /\ IsPlainObject(heap', result'))
               => KeysExplained(heap, heap', document.selectionSet, rootValue,
                                IF phase = "start" THEN NULL ELSE previousResult,
                                result')]_vars

\* An execution of the query with directives in which b is excluded: a was
\* resolved, b and c were not, and the result has no key b.
C4_Witness ==
    /\ phase = "executed"
    /\ status = "returned"
    /\ document = QueryDirectives
    /\ variableValues["v"]
    /\ 2 \in ExcludedInDocument
    /\ 3 \in ExcludedInDocument
    /\ Len(calls) = 1
    /\ HasOwn(heap, result, "a")
    /\ ~HasOwn(heap, result, "b")

-----------------------------------------------------------------------------
(* C5 *)

RECURSIVE SpreadNames(_)
\* The names of the fragment spreads written in a selection set.
SpreadNames(selections) ==
    UNION { (IF selections[i].kind = "FragmentSpread" THEN { selections[i].name } ELSE {})
            \cup SpreadNames(selections[i].selectionSet)
          : i \in 1..Len(selections) }

SpreadsInDocument ==
    SpreadNames(document.selectionSet)
    \cup UNION { SpreadNames(document.fragments[i].selectionSet)
                 : i \in 1..Len(document.fragments) }

ContainsUnknownSpread ==
    \E name \in SpreadsInDocument : ~HasFragment(document.fragments, name)

\* C5 as claimed: executing a query that contains a spread of an undefined
\* fragment raises an error and returns no result.
C5_UnknownSpreadAlwaysRaises ==
    (Executed /\ ContainsUnknownSpread) => (status = "threw" /\ result = UNDEFINED)

RECURSIVE Reaches(_, _, _, _)
RECURSIVE ReachesInList(_, _, _, _)

\* The evaluation of a selection set on a root value comes to a spread of an
\* undefined fragment: one the directive filter keeps, in this selection
\* set, in a matched fragment of it, or in the sub-selection of a field
\* that resolves to an object or to a list holding one.
ReachesInList(h, selectionSet, list, fuel) ==
    \E i \in 0..(Len(h[list.v].elems) - 1) :
        LET item == GetIndex(h, list, i)
        IN  \/ IsPlainObject(h, item) /\ Reaches(h, selectionSet, item, fuel)
            \/ IsArray(h, item) /\ ReachesInList(h, selectionSet, item, fuel)

Reaches(h, selections, root, fuel) ==
    /\ fuel > 0
    /\ \E i \in 1..Len(selections) :
         LET s == selections[i]
             fresh == GetProp(h, root, s.name)
         IN  /\ shouldInclude(s, variableValues)
             /\ IF isField(s)
                THEN /\ s.selectionSet # << >>
                     /\ \/ IsPlainObject(h, fresh) /\ Reaches(h, s.selectionSet, fresh, fuel)
                        \/ IsArray(h, fresh) /\ ReachesInList(h, s.selectionSet, fresh, fuel)
                ELSE IF isInlineFragment(s)
                THEN Matches(s.typeCondition) /\ Reaches(h, s.selectionSet, root, fuel - 1)
                ELSE \/ ~HasFragment(document.fragments, s.name)
                     \/ LET def == LookupFragment(document.fragments, s.name)
                        IN  Matches(def.typeCondition)
                              /\ Reaches(h, def.selectionSet, root, fuel - 1)

\* C5, amended: an execution that comes to a spread of an undefined fragment
\* (one the directive filter keeps, in a selection set that is evaluated)
\* raises an error and returns no result.
C5_ReachedUnknownSpreadRaises ==
    (Executed /\ Reaches(heap, document.selectionSet, rootValue, MaxStack))
      => (status = "threw" /\ error # "" /\ result = UNDEFINED)

\* An execution that resolved b and c, came to the undefined spread beneath
\* b and raised.
C5_Witness ==
    /\ Executed
    /\ document = QueryUnknownNested
    /\ Reaches(heap, document.selectionSet, rootValue, MaxStack)
    /\ Len(calls) = 2
    /\ status = "threw"
    /\ error = "NoFragment"

-----------------------------------------------------------------------------
(* C6 *)

Refs(cell) == { x.v : x \in { y \in Range(cell.vals) \cup Range(cell.elems) : y.t = "ref" } }

RECURSIVE ReachableFrom(_, _, _)
ReachableFrom(h, frontier, seen) ==
    IF frontier \subseteq seen THEN seen
    ELSE ReachableFrom(h, UNION { Refs(h[a]) : a \in frontier }, seen \cup frontier)

\* The addresses of the objects and lists reachable from a value.
Reachable(h, x) == IF IsRef(x) THEN ReachableFrom(h, { x.v }, {}) ELSE {}

\* C6: an execution leaves every object and list reachable from
\* previousResult with the keys, elements and values it had.
C6_PreviousReadOnly ==
    [][Reexecuting => \A a \in Reachable(heap, previousResult) : heap'[a] = heap[a]]_vars

-----------------------------------------------------------------------------
(* C7 *)

RECURSIVE ExpectedCalls(_, _, _, _)
RECURSIVE ExpectedCallsInList(_, _, _, _)

\* The fields to resolve when a selection set is evaluated on a root value,
\* in document order: each visited field once, followed by the fields of its
\* sub-selection on the object, or on each object of the list, it resolves to.
ExpectedCallsInList(h, selectionSet, list, i) ==
    IF i >= Len(h[list.v].elems) THEN << >>
    ELSE LET item == GetIndex(h, list, i)
         IN  (IF IsArray(h, item) THEN ExpectedCallsInList(h, selectionSet, item, 0)
              ELSE IF IsPlainObject(h, item)
              THEN ExpectedCalls(h, Visited(selectionSet), 1, item)
              ELSE << >>)
             \o ExpectedCallsInList(h, selectionSet, list, i + 1)

ExpectedCalls(h, fields, i, root) ==
    IF i > Len(fields) THEN << >>
    ELSE LET f == fields[i]
             fresh == GetProp(h, root, f.name)
         IN  << f.id >>
             \o (IF f.selectionSet = << >> \/ ~IsRef(fresh) THEN << >>
                 ELSE IF IsArray(h, fresh) THEN ExpectedCallsInList(h, f.selectionSet, fresh, 0)
                 ELSE ExpectedCalls(h, Visited(f.selectionSet), 1, fresh))
             \o ExpectedCalls(h, fields, i + 1, root)

CallIds(cs) == [i \in 1..Len(cs) |-> cs[i].field]

\* C7: an execution that returns has resolved each visited field exactly
\* once per evaluation of its selection set, in document order; and the
\* resolver calls of an execution with a previousResult are those of the
\* execution without one.
C7_ResolverCalls ==
    [][Executing =>
         /\ status' = "returned"
               => CallIds(calls') = ExpectedCalls(heap, Visited(document.selectionSet),
                                                  1, rootValue)
         /\ Reexecuting => calls' = Fresh.st.calls]_vars

-----------------------------------------------------------------------------
(* C8 *)

Max(S) == IF S = {} THEN 0 ELSE CHOOSE m \in S : \A n \in S : n <= m

RECURSIVE QueryDepth(_, _)
\* The nesting depth of a selection set, fragments counted as a level of
\* nesting and expanded where spread (a spread of a fragment already being
\* expanded, or of an undefined one, adds nothing).
QueryDepth(selections, expanding) ==
    1 + Max({ LET s == selections[i]
              IN  IF isField(s) \/ isInlineFragment(s)
                  THEN (IF s.selectionSet = << >> THEN 0
                        ELSE QueryDepth(s.selectionSet, expanding))
                  ELSE IF ~HasFragment(document.fragments, s.name) \/ s.name \in expanding
                  THEN 0
                  ELSE QueryDepth(LookupFragment(document.fragments, s.name).selectionSet,
                                  expanding \cup { s.name })
            : i \in 1..Len(selections) })

RECURSIVE ListDepth(_, _)
\* The greatest number of lists nested in one another in a value.
ListDepth(h, x) ==
    IF ~IsRef(x) THEN 0
    ELSE (IF IsArray(h, x) THEN 1 ELSE 0)
         + Max({ ListDepth(h, y) : y \in Range(h[x.v].vals) \cup Range(h[x.v].elems) })

RECURSIVE SpreadClosure(_, _)
\* The fragments spread, directly or through other fragments, by a set of
\* spread names.
SpreadClosure(names, n) ==
    IF n = 0 THEN names
    ELSE SpreadClosure(
           names \cup UNION { SpreadNames(LookupFragment(document.fragments, name).selectionSet)
                              : name \in { m \in names : HasFragment(document.fragments, m) } },
           n - 1)

\* No fragment of the document spreads itself.
Acyclic ==
    \A i \in 1..Len(document.fragments) :
        document.fragments[i].name
          \notin SpreadClosure(SpreadNames(document.fragments[i].selectionSet),
                               Len(document.fragments))

DepthBound == QueryDepth(document.selectionSet, {}) + ListDepth(heap, rootValue)

-----------------------------------------------------------------------------
(* C9 *)

\* The call to come: graphql() with the previousResult the caller holds.
Calling == phase \in {"start", "updated"}

\* The top-level selections of the query that are fragments the directive
\* filter keeps, defined and matched: the places where merge() is called.
MergeSites ==
    { i \in 1..Len(document.selectionSet) :
        LET s == document.selectionSet[i]
        IN  /\ ~isField(s)
            /\ shouldInclude(s, variableValues)
            /\ IF isInlineFragment(s) THEN Matches(s.typeCondition)
               ELSE /\ HasFragment(document.fragments, s.name)
                    /\ Matches(LookupFragment(document.fragments, s.name).typeCondition) }

\* The call merge(result, fragmentResult) made for top-level selection i in
\* the call to come: its arguments and the evaluation state before and
\* after it.
MergeAt(i) ==
    LET execContext == ExecContext(document, variableValues, execOptions)
        s == document.selectionSet[i]
        fragment == IF isInlineFragment(s) THEN s
                    ELSE LookupFragment(document.fragments, s.name)
        res == Ref(Len(heap) + 1)
        st0 == [Enter(Entry(heap), 1) EXCEPT !.heap = Append(@, ObjectCell(<< >>, << >>))]
        before == forEachSelection(SubSeq(document.selectionSet, 1, i - 1), 1, rootValue,
                                   previousResult, execContext, res,
                                   SeedModified(previousResult), 1, st0)
        fr == executeSelectionSet(fragment.selectionSet, rootValue, previousResult,
                                  execContext, 2, before.st)
    IN  [dest |-> res, src |-> fr.value, before |-> fr.st,
         after |-> merge(res, fr.value, fr.st)]

RECURSIVE MergedAsClaimed(_, _, _, _)
\* The merge policy: between the heap before (h) and after (h2) the merge of
\* src into dest, a key of both whose source value is not an object holds
\* the source value, a key of both holding objects holds dest's object,
\* merged in turn, a key of src alone is added and a key of dest alone kept.
MergedAsClaimed(h, h2, dest, src) ==
    /\ \A k \in Range(OwnKeys(h, src)) :
         LET sv == GetProp(h, src, k)
             dv == GetProp(h, dest, k)
             now == GetProp(h2, dest, k)
         IN  IF ~HasOwn(h, dest, k) THEN now = sv
             ELSE IF IsPlainObject(h, sv)
             THEN IsPlainObject(h, dv) => (now = dv /\ MergedAsClaimed(h, h2, dv, sv))
             ELSE now = sv
    /\ \A k \in Range(OwnKeys(h, dest)) \ Range(OwnKeys(h, src)) :
         HasOwn(h2, dest, k) /\ GetProp(h2, dest, k) = GetProp(h, dest, k)

\* C9: when a matched fragment's sub-result is merged into the accumulator,
\* a key of both whose source value is null, a scalar or a list is
\* overwritten with the source value, a key of both holding objects holds
\* the recursive merge, keys only in the source are added and keys only in
\* the accumulator are left untouched.
C9_MergePolicy ==
    Calling =>
      \A i \in MergeSites :
          LET m == MergeAt(i)
          IN  (~Failed(m.before) /\ ~Failed(m.after) /\ IsPlainObject(m.before.heap, m.src))
                => MergedAsClaimed(m.before.heap, m.after.heap, m.dest, m.src)

-----------------------------------------------------------------------------
(* C10 *)

RECURSIVE SameData(_, _, _, _, _)
\* The value v2 (in heap h2) holds, at every path the selection set selects
\* from v1 (in heap h1), the value v1 holds there: lists of the same length
\* element by element, objects field by field, anything else as it is.
SameData(h1, v1, h2, v2, selectionSet) ==
    IF IsArray(h1, v1)
    THEN /\ IsArray(h2, v2)
         /\ Len(h2[v2.v].elems) = Len(h1[v1.v].elems)
         /\ \A i \in 0..(Len(h1[v1.v].elems) - 1) :
              SameData(h1, GetIndex(h1, v1, i), h2, GetIndex(h2, v2, i), selectionSet)
    ELSE IF IsPlainObject(h1, v1)
    THEN /\ IsPlainObject(h2, v2)
         /\ \A f \in Range(Visited(selectionSet)) :
              LET key == resultKeyNameFromField(f)
              IN  IF f.selectionSet = << >>
                  THEN GetProp(h2, v2, key) = GetProp(h1, v1, key)
                  ELSE SameData(h1, GetProp(h1, v1, key), h2, GetProp(h2, v2, key),
                                f.selectionSet)
    ELSE v2 = v1

\* C10: without a result mapper, when the execution with a previousResult
\* and the execution without one both return, the two results hold the same
\* value at every path the query selects, list lengths, null elements and
\* nested lists included.
C10_SameData ==
    [][(Reexecuting /\ NoMapper /\ status' = "returned" /\ ~Failed(Fresh.st))
         => SameData(Fresh.st.heap, Fresh.value, heap', result', document.selectionSet)]_vars

=============================================================================
